---- MODULE Spec2Model ----
(***************************************************************************)
(* Model of the energy-rate applet (src/src/app.rs): the sampler           *)
(* get_energy_rate, the AppModel state, its update handler, its view and   *)
(* the three subscriptions that feed messages to update.                   *)
(*                                                                         *)
(* Text is a sequence of one-character strings, so that trimming, prefix   *)
(* tests, substring replacement and line splitting are computed character  *)
(* by character as the Rust standard library computes them.                *)
(***************************************************************************)
EXTENDS Naturals, Sequences, FiniteSets

VARIABLES
    pc,           \* life cycle of the process: "start", "running", "aborted"
    popup,        \* AppModel.popup : Option<Id>
    config,       \* AppModel.config : Config
    energy_rate,  \* AppModel.energy_rate : String
    bootpc,       \* position of the channel closure of the first subscription
    chan,         \* buffer of iced::stream::channel(4, ..)
    queue,        \* messages of the batched subscriptions waiting for update
    bootEmitted,  \* number of Message::SubscriptionChannel sent so far
    ticks,        \* Message::UpdateEnergyRate messages given to update so far
    samples,      \* get_energy_rate calls made so far
    emittedConfig, \* the snapshot of the latest Message::UpdateConfig emitted
    last,         \* the latest init / update step: the message type, how many
                  \* get_energy_rate() calls and how many view() calls it made
    rendered,     \* the text the last view() call put on the panel
    output,       \* std::process::Output of the latest Command::output() call
    returned,     \* what the latest get_energy_rate() call that returned gave
    stderr_log    \* what that call wrote with eprintln!

vars == <<pc, popup, config, energy_rate, bootpc, chan, queue, bootEmitted,
          emittedConfig, ticks, samples, last, rendered, output, returned,
          stderr_log>>

(***************************************************************************)
(* Bounds of the model.                                                    *)
(***************************************************************************)
MaxPieces == 4      \* pieces a sampled stdout / stderr is built from
MaxQueue == 2       \* messages waiting for update
MaxTicks == 2       \* UpdateEnergyRate messages and calls that are counted

(***************************************************************************)
(* Text.                                                                   *)
(***************************************************************************)
Label == <<"e", "n", "e", "r", "g", "y", "-", "r", "a", "t", "e", ":">>
Prefix == <<"E", "n", "e", "r", "g", "y", " ", "R", "a", "t", "e", ":", " ">>
ErrorText == <<"E", "r", "r", "o", "r">>
ErrorPrefix == <<"E", "r", "r", "o", "r", ":", " ">>
Empty == <<>>

\* char::is_whitespace, on the characters of the model's alphabet
is_whitespace(c) == c \in {" ", "\t", "\n", "\r"}

\* String::from_utf8_lossy: every invalid byte (written "xFF") becomes one
\* U+FFFD REPLACEMENT CHARACTER (written "uFFFD"); valid text is kept.
from_utf8_lossy(bytes) ==
    [i \in 1..Len(bytes) |-> IF bytes[i] = "xFF" THEN "uFFFD" ELSE bytes[i]]

RECURSIVE trim_start(_)
trim_start(s) ==
    IF s # <<>> /\ is_whitespace(Head(s)) THEN trim_start(Tail(s)) ELSE s

RECURSIVE trim_end(_)
trim_end(s) ==
    IF s # <<>> /\ is_whitespace(s[Len(s)])
    THEN trim_end(SubSeq(s, 1, Len(s) - 1))
    ELSE s

trim(s) == trim_end(trim_start(s))

starts_with(s, pat) == Len(s) >= Len(pat) /\ SubSeq(s, 1, Len(pat)) = pat

\* str::replace: every non-overlapping match of from, left to right
RECURSIVE replace(_, _, _)
replace(s, from, to) ==
    IF Len(s) < Len(from) THEN s
    ELSE IF starts_with(s, from)
         THEN to \o replace(SubSeq(s, Len(from) + 1, Len(s)), from, to)
         ELSE <<Head(s)>> \o replace(Tail(s), from, to)

\* One line of str::lines: a piece of split_inclusive('\n') loses its final
\* "\n" and then one "\r" before it; a last piece without "\n" is kept whole.
strip_line_ending(piece) ==
    IF piece # <<>> /\ piece[Len(piece)] = "\n"
    THEN LET l == SubSeq(piece, 1, Len(piece) - 1)
         IN IF l # <<>> /\ l[Len(l)] = "\r" THEN SubSeq(l, 1, Len(l) - 1) ELSE l
    ELSE piece

\* str::lines
RECURSIVE lines_from(_, _)
lines_from(s, cur) ==
    IF s = <<>> THEN (IF cur = <<>> THEN <<>> ELSE <<strip_line_ending(cur)>>)
    ELSE IF Head(s) = "\n"
         THEN <<strip_line_ending(Append(cur, "\n"))>> \o lines_from(Tail(s), <<>>)
         ELSE lines_from(Tail(s), Append(cur, Head(s)))

lines(s) == lines_from(s, <<>>)

(***************************************************************************)
(* get_energy_rate.  An Output is what Command::output() gave: spawned is  *)
(* FALSE when the process could not be started (the Err of io::Result),    *)
(* otherwise code is the exit code and stdout, stderr the captured bytes.  *)
(* The result tells whether the call panicked, the String it returned and  *)
(* the lines it wrote to the applet's own standard error.                  *)
(***************************************************************************)
Panic == [panic |-> TRUE, text |-> <<>>, eprint |-> <<>>]
Return(text, printed) == [panic |-> FALSE, text |-> text, eprint |-> printed]

\* ExitStatus::success
success(out) == out.code = 0

\* mutant: the label is looked for anywhere in the line
is_energy_rate_line_anywhere(line) ==
    \E p \in 1..Len(line) : starts_with(SubSeq(line, p, Len(line)), Label)

\* line.trim_start().starts_with("energy-rate:")
is_energy_rate_line(line) == starts_with(trim_start(line), Label)

\* mutant: the loop returns the value without "Energy Rate: " before it
scan_lines_unlabelled(ls) ==
    LET hits == {i \in 1..Len(ls) : is_energy_rate_line(ls[i])}
    IN IF hits = {}
       THEN Return(Empty, <<>>)
       ELSE LET i == CHOOSE j \in hits : \A k \in hits : j <= k
            IN Return(trim(replace(ls[i], Label, <<>>)), <<>>)

\* mutant: the loop keeps the latest line that starts with the label
scan_lines_last(ls) ==
    LET hits == {i \in 1..Len(ls) : is_energy_rate_line(ls[i])}
    IN IF hits = {}
       THEN Return(Empty, <<>>)
       ELSE LET i == CHOOSE j \in hits : \A k \in hits : k <= j
            IN Return(Prefix \o trim(replace(ls[i], Label, <<>>)), <<>>)

\* the for loop over stdout.lines()
RECURSIVE scan_lines(_)
scan_lines(ls) ==
    IF ls = <<>> THEN Return(Empty, <<>>)
    ELSE IF is_energy_rate_line(Head(ls))
         THEN Return(Prefix \o trim(replace(Head(ls), Label, <<>>)), <<>>)
         ELSE scan_lines(Tail(ls))

\* mutant: the failure branch returns the text of the error stream
get_energy_rate_returns_stderr(out) ==
    IF ~out.spawned THEN Panic
    ELSE IF success(out)
         THEN scan_lines(lines(from_utf8_lossy(out.stdout)))
         ELSE LET reason == from_utf8_lossy(out.stderr)
              IN Return(IF reason = <<>> THEN ErrorText ELSE reason,
                        <<ErrorPrefix \o reason \o <<"\n">> >>)

get_energy_rate(out) ==
    IF ~out.spawned THEN Panic
    ELSE IF success(out)
         THEN scan_lines(lines(from_utf8_lossy(out.stdout)))
         ELSE Return(ErrorText,
                     <<ErrorPrefix \o from_utf8_lossy(out.stderr) \o <<"\n">> >>)

(***************************************************************************)
(* AppModel: init, update, view, on_close_requested.                       *)
(***************************************************************************)
None == "None"
Ids == {"window1"}
ConfigDefault == "Config::default"
Configs == {ConfigDefault, "config_a", "config_b"}

SubscriptionChannel == [type |-> "SubscriptionChannel", config |-> None, id |-> None]
UpdateConfig(c) == [type |-> "UpdateConfig", config |-> c, id |-> None]
PopupClosed(id) == [type |-> "PopupClosed", config |-> None, id |-> id]
UpdateEnergyRate == [type |-> "UpdateEnergyRate", config |-> None, id |-> None]

Message ==
    {SubscriptionChannel, UpdateEnergyRate}
        \cup {UpdateConfig(c) : c \in Configs} \cup {PopupClosed(i) : i \in Ids}

\* #[derive(Default)] AppModel
AppModelDefault == [popup |-> None, config |-> ConfigDefault, energy_rate |-> Empty]

\* What loading the configuration gave: no context (Config::new failed), or a
\* context whose get_entry returned Ok(config) or Err((errors, config)).
ConfigLoads == [context : BOOLEAN, entry_ok : BOOLEAN, config : Configs]

\* nothing was loaded: the step was not init
NoLoad == [context |-> FALSE, entry_ok |-> FALSE, config |-> None]

load_config(load) == IF load.context THEN load.config ELSE ConfigDefault

\* mutant: the configuration context is unwrapped, not defaulted
init_unwraps(load, out) ==
    LET rate == IF load.context THEN get_energy_rate(out) ELSE Panic
    IN [self |-> [AppModelDefault EXCEPT !.config = load_config(load),
                                         !.energy_rate = rate.text],
        calls |-> <<rate>>]

\* AppModel::init; calls are the results of the get_energy_rate calls it made
init(load, out) ==
    LET rate == get_energy_rate(out)
    IN [self |-> [AppModelDefault EXCEPT !.config = load_config(load),
                                         !.energy_rate = rate.text],
        calls |-> <<rate>>]

on_close_requested(id) == PopupClosed(id)

\* The arms of the match in AppModel::update.  Each gives the new state and
\* the results of the get_energy_rate calls it made.
update_subscription_channel(self) == [self |-> self, calls |-> <<>>]

\* mutant: the arm rebuilds the model around the new configuration
update_config_rebuilds(self, cfg) ==
    [self |-> [AppModelDefault EXCEPT !.config = cfg], calls |-> <<>>]

\* mutant: the arm drops the snapshot it was given
update_config_dropped(self, cfg) == [self |-> self, calls |-> <<>>]

update_config(self, cfg) == [self |-> [self EXCEPT !.config = cfg], calls |-> <<>>]

\* mutant: the arm records the window it was told about
update_popup_closed_records(self, id) ==
    [self |-> IF self.popup = id
              THEN [self EXCEPT !.popup = None]
              ELSE [self EXCEPT !.popup = id],
     calls |-> <<>>]

update_popup_closed(self, id) ==
    [self |-> IF self.popup = id THEN [self EXCEPT !.popup = None] ELSE self,
     calls |-> <<>>]

\* mutant: a failed sample keeps the text of the sample before it
update_energy_rate_keeps_on_error(self, out) ==
    LET new_energy_rate == get_energy_rate(out)
    IN [self |-> IF new_energy_rate.panic \/ new_energy_rate.text = ErrorText
                 THEN self
                 ELSE [self EXCEPT !.energy_rate = new_energy_rate.text],
        calls |-> <<new_energy_rate>>]

\* mutant: once the text is "Error" a later sample does not replace it
update_energy_rate_latches_error(self, out) ==
    LET new_energy_rate == get_energy_rate(out)
    IN [self |-> IF new_energy_rate.panic \/ self.energy_rate = ErrorText
                 THEN self
                 ELSE [self EXCEPT !.energy_rate = new_energy_rate.text],
        calls |-> <<new_energy_rate>>]

\* mutant: a failed sample is taken once more
update_energy_rate_retries(self, out) ==
    LET new_energy_rate == get_energy_rate(out)
    IN [self |-> IF new_energy_rate.panic
                 THEN self
                 ELSE [self EXCEPT !.energy_rate = new_energy_rate.text],
        calls |-> IF ~new_energy_rate.panic /\ new_energy_rate.text = ErrorText
                  THEN <<new_energy_rate, new_energy_rate>>
                  ELSE <<new_energy_rate>>]

\* a get_energy_rate call that panicked unwinds update before the assignment
update_energy_rate(self, out) ==
    LET new_energy_rate == get_energy_rate(out)
    IN [self |-> IF new_energy_rate.panic
                 THEN self
                 ELSE [self EXCEPT !.energy_rate = new_energy_rate.text],
        calls |-> <<new_energy_rate>>]

\* mutant: the first message of the channel refreshes the energy rate
update_samples_on_start(self, message, out) ==
    CASE message.type = "SubscriptionChannel" -> update_energy_rate(self, out)
      [] message.type = "UpdateConfig" -> update_config(self, message.config)
      [] message.type = "PopupClosed" -> update_popup_closed(self, message.id)
      [] message.type = "UpdateEnergyRate" -> update_energy_rate(self, out)

\* AppModel::update; out is what Command::output() gives if the handler samples
update(self, message, out) ==
    CASE message.type = "SubscriptionChannel" -> update_subscription_channel(self)
      [] message.type = "UpdateConfig" -> update_config(self, message.config)
      [] message.type = "PopupClosed" -> update_popup_closed(self, message.id)
      [] message.type = "UpdateEnergyRate" -> update_energy_rate(self, out)

\* AppModel::view: the text of the applet's panel button
view(self) == self.energy_rate

(***************************************************************************)
(* The process: what the external diagnostic process can give on a call.   *)
(***************************************************************************)
NotSpawned == [spawned |-> FALSE, code |-> 0, stdout |-> <<>>, stderr |-> <<>>]
Exited(code, stdout, stderr) ==
    [spawned |-> TRUE, code |-> code, stdout |-> stdout, stderr |-> stderr]

TickOutputs ==
    { NotSpawned,
      Exited(1, <<>>, <<"d", "\n">>),
      Exited(0, <<" ", " ">> \o Label \o <<" ", " ", "9", " ", "W", "\n">>, <<>>),
      Exited(0, <<"v", ":", "1", "\n">> \o Label \o <<" ", "7", "\n">>, <<"w">>),
      Exited(0, <<"v", ":", "1", "\n">>, <<>>) }

Self == [popup |-> popup, config |-> config, energy_rate |-> energy_rate]

Panicked(calls) == \E i \in 1..Len(calls) : calls[i].panic

\* The effects of one init / update step that made the calls of res: a panic
\* in get_energy_rate ends the process before anything is stored or drawn.
Step(type, load, res, out) ==
    /\ last' = [msg |-> type, load |-> load, calls |-> Len(res.calls),
                after_error |-> energy_rate = ErrorText,
                views |-> IF Panicked(res.calls) THEN 0 ELSE 1]
    /\ output' = IF res.calls # <<>> THEN out ELSE output
    /\ IF ticks < MaxTicks
       THEN /\ ticks' = IF type = "UpdateEnergyRate" THEN ticks + 1 ELSE ticks
            /\ samples' = samples + Len(res.calls)
       ELSE UNCHANGED <<ticks, samples>>
    /\ IF res.calls # <<>> /\ ~Panicked(res.calls)
       THEN /\ returned' = res.calls[Len(res.calls)]
            /\ stderr_log' = res.calls[Len(res.calls)].eprint
       ELSE UNCHANGED <<returned, stderr_log>>
    /\ IF Panicked(res.calls)
       THEN /\ pc' = "aborted"
            /\ UNCHANGED <<popup, config, energy_rate, rendered>>
       ELSE /\ pc' = "running"
            /\ popup' = res.self.popup
            /\ config' = res.self.config
            /\ energy_rate' = res.self.energy_rate
            /\ rendered' = view(res.self)

AppInit ==
    /\ pc = "start"
    /\ \E load \in ConfigLoads, out \in TickOutputs : Step("init", load, init(load, out), out)
    /\ UNCHANGED <<bootpc, chan, queue, bootEmitted, emittedConfig>>

(***************************************************************************)
(* AppModel::subscription: the three batched producers, and the window     *)
(* close request that the runtime turns into a message.                    *)
(***************************************************************************)
ChannelCapacity == 4

\* the process lives: the producers run on the executor's threads whether or
\* not the main thread is inside update
Alive == pc \in {"running", "updating"}

\* mutant: the closure returns once its send has completed
after_send_returns == "done"

\* where the channel closure is once its send has completed: it awaits
\* future::pending() and is never resumed
after_send == "pending"

\* channel.send(Message::SubscriptionChannel).await
BootSend ==
    /\ Alive
    /\ bootpc = "start"
    /\ Len(chan) < ChannelCapacity
    /\ chan' = Append(chan, SubscriptionChannel)
    /\ bootpc' = after_send
    /\ bootEmitted' = bootEmitted + 1
    /\ UNCHANGED <<pc, popup, config, energy_rate, queue, emittedConfig,
                   ticks, samples, last, rendered, output, returned,
                   stderr_log>>

\* the runtime takes the next message out of the channel's buffer
ChannelRecv ==
    /\ Alive
    /\ chan # <<>>
    /\ Len(queue) < MaxQueue
    /\ queue' = Append(queue, Head(chan))
    /\ chan' = Tail(chan)
    /\ UNCHANGED <<pc, popup, config, energy_rate, bootpc, bootEmitted,
                   emittedConfig, ticks, samples, last, rendered, output,
                   returned, stderr_log>>

\* mutant: a full queue gives up its newest message for the one emitted
Emit_overwrites(message) ==
    /\ Alive
    /\ queue' = IF Len(queue) < MaxQueue
                THEN Append(queue, message)
                ELSE Append(SubSeq(queue, 1, Len(queue) - 1), message)
    /\ emittedConfig' = IF message.type = "UpdateConfig"
                        THEN message.config
                        ELSE emittedConfig
    /\ UNCHANGED <<pc, popup, config, energy_rate, bootpc, chan, bootEmitted,
                   ticks, samples, last, rendered, output, returned,
                   stderr_log>>

Emit(message) ==
    /\ Alive
    /\ Len(queue) < MaxQueue
    /\ queue' = Append(queue, message)
    /\ emittedConfig' = IF message.type = "UpdateConfig"
                        THEN message.config
                        ELSE emittedConfig
    /\ UNCHANGED <<pc, popup, config, energy_rate, bootpc, chan, bootEmitted,
                   ticks, samples, last, rendered, output, returned,
                   stderr_log>>

\* watch_config::<Config>(APP_ID).map(|update| Message::UpdateConfig(update.config))
ConfigWatch == \E c \in Configs : Emit(UpdateConfig(c))

\* iced::time::every(Duration::from_secs(1)).map(|_| Message::UpdateEnergyRate)
TimerFire == Emit(UpdateEnergyRate)

CloseRequested == \E id \in Ids : Emit(on_close_requested(id))

(***************************************************************************)
(* The runtime hands the next message to update and then draws the view.   *)
(***************************************************************************)
\* mutant: update is given the newest waiting message
Handle_newest_first(message, out) ==
    /\ pc = "running"
    /\ queue # <<>>
    /\ queue[Len(queue)] = message
    /\ queue' = SubSeq(queue, 1, Len(queue) - 1)
    /\ Step(message.type, NoLoad, update(Self, message, out), out)
    /\ UNCHANGED <<bootpc, chan, bootEmitted, emittedConfig>>

\* mutant: a message is handled while update is still inside a call
Handle_reentrant(message, out) ==
    /\ Alive
    /\ queue # <<>>
    /\ Head(queue) = message
    /\ queue' = Tail(queue)
    /\ Step(message.type, NoLoad, update(Self, message, out), out)
    /\ UNCHANGED <<bootpc, chan, bootEmitted, emittedConfig>>

Handle(message, out) ==
    /\ pc = "running"
    /\ queue # <<>>
    /\ Head(queue) = message
    /\ queue' = Tail(queue)
    /\ Step(message.type, NoLoad, update(Self, message, out), out)
    /\ UNCHANGED <<bootpc, chan, bootEmitted, emittedConfig>>

HandleSubscriptionChannel == Handle(SubscriptionChannel, output)

HandleUpdateConfig == \E c \in Configs : Handle(UpdateConfig(c), output)

HandlePopupClosed == \E id \in Ids : Handle(PopupClosed(id), output)

HandleUpdateEnergyRate == \E out \in TickOutputs : Handle(UpdateEnergyRate, out)

HandleAny ==
    \/ HandleSubscriptionChannel
    \/ HandleUpdateConfig
    \/ HandlePopupClosed
    \/ HandleUpdateEnergyRate

Init ==
    /\ pc = "start"
    /\ popup = AppModelDefault.popup
    /\ config = AppModelDefault.config
    /\ energy_rate = AppModelDefault.energy_rate
    /\ bootpc = "start"
    /\ chan = <<>>
    /\ queue = <<>>
    /\ bootEmitted = 0
    /\ emittedConfig = None
    /\ ticks = 0
    /\ samples = 0
    /\ last = [msg |-> "none", load |-> NoLoad, calls |-> 0,
               after_error |-> FALSE, views |-> 0]
    /\ rendered = Empty
    /\ output = NotSpawned
    /\ returned = Return(Empty, <<>>)
    /\ stderr_log = <<>>

Next ==
    \/ AppInit
    \/ BootSend
    \/ ChannelRecv
    \/ ConfigWatch
    \/ TimerFire
    \/ CloseRequested
    \/ HandleSubscriptionChannel
    \/ HandleUpdateConfig
    \/ HandlePopupClosed
    \/ HandleUpdateEnergyRate

Spec == Init /\ [][Next]_vars

\* The executor runs a ready task, and the runtime handles a waiting message.
FairSpec ==
    /\ Spec
    /\ WF_vars(AppInit)
    /\ WF_vars(BootSend)
    /\ WF_vars(ChannelRecv)
    /\ WF_vars(HandleSubscriptionChannel \/ HandleUpdateConfig
                \/ HandlePopupClosed \/ HandleUpdateEnergyRate)

(***************************************************************************)
(* The same program with the Message::UpdateEnergyRate arm in two steps:   *)
(* update is entered and get_energy_rate waits in Command::output(), then  *)
(* the process has ended and the arm stores the text.                      *)
(***************************************************************************)
UpdateEnergyRateBegin ==
    /\ pc = "running"
    /\ queue # <<>>
    /\ Head(queue) = UpdateEnergyRate
    /\ queue' = Tail(queue)
    /\ pc' = "updating"
    /\ UNCHANGED <<popup, config, energy_rate, bootpc, chan, bootEmitted,
                   emittedConfig, ticks, samples, last, rendered, output,
                   returned, stderr_log>>

UpdateEnergyRateEnd ==
    /\ pc = "updating"
    /\ \E out \in TickOutputs :
          Step("UpdateEnergyRate", NoLoad, update(Self, UpdateEnergyRate, out), out)
    /\ UNCHANGED <<bootpc, chan, queue, bootEmitted, emittedConfig>>

BlockingNext ==
    \/ AppInit
    \/ BootSend
    \/ ChannelRecv
    \/ ConfigWatch
    \/ TimerFire
    \/ CloseRequested
    \/ HandleSubscriptionChannel
    \/ HandleUpdateConfig
    \/ HandlePopupClosed
    \/ UpdateEnergyRateBegin
    \/ UpdateEnergyRateEnd

BlockingSpec == Init /\ [][BlockingNext]_vars

(***************************************************************************)
(* The sampler alone: one get_energy_rate call on each output a process    *)
(* can give, built from a few pieces of text.                              *)
(***************************************************************************)
LabelCapital == <<"E", "n", "e", "r", "g", "y", "-", "r", "a", "t", "e", ":">>
Pieces ==
    {Label, LabelCapital, <<" ">>, <<"\t">>, <<"\n">>, <<"\r">>, <<"9">>, <<"xFF">>}

RECURSIVE Flatten(_)
Flatten(ps) == IF ps = <<>> THEN <<>> ELSE Head(ps) \o Flatten(Tail(ps))

\* the stream the call does not read holds one of these
OtherStream == {<<>>, Label \o <<"5", "\n">>}
ExitCodes == {0, 1, 2}

\* the outputs of a process that read, or wrote, the text t
SamplerOutputs(t) ==
    {NotSpawned}
        \cup {Exited(0, t, o) : o \in OtherStream}
        \cup {Exited(c, o, t) : c \in ExitCodes \ {0}, o \in OtherStream}

SamplerInit ==
    /\ pc = "sampling"
    /\ \E n \in 0..MaxPieces :
          \E ps \in [1..n -> Pieces] : output \in SamplerOutputs(Flatten(ps))
    /\ returned = Return(Empty, <<>>)
    /\ stderr_log = <<>>
    /\ popup = AppModelDefault.popup
    /\ config = AppModelDefault.config
    /\ energy_rate = AppModelDefault.energy_rate
    /\ bootpc = "start"
    /\ chan = <<>>
    /\ queue = <<>>
    /\ bootEmitted = 0
    /\ emittedConfig = None
    /\ ticks = 0
    /\ samples = 0
    /\ last = [msg |-> "none", load |-> NoLoad, calls |-> 0,
               after_error |-> FALSE, views |-> 0]
    /\ rendered = Empty

SamplerCall ==
    /\ pc = "sampling"
    /\ LET rate == get_energy_rate(output)
       IN /\ returned' = rate
          /\ stderr_log' = rate.eprint
          /\ pc' = IF rate.panic THEN "aborted" ELSE "sampled"
    /\ UNCHANGED <<popup, config, energy_rate, bootpc, chan, queue,
                   bootEmitted, emittedConfig, ticks, samples, last, rendered,
                   output>>

SamplerNext == SamplerCall

SamplerSpec == SamplerInit /\ [][SamplerNext]_vars

(***************************************************************************)
(* Properties.                                                             *)
(***************************************************************************)
\* this step is update handling the message of the given type
Handled(type) ==
    /\ pc = "running"
    /\ queue # <<>>
    /\ Head(queue).type = type
    /\ queue' = Tail(queue)

\* C1: handling UpdateConfig leaves energy_rate as it was, and handling
\* UpdateEnergyRate leaves config as it was, whatever the sample gives
\* (a text, or a panic).
C1_ConfigIsolation ==
    [][ /\ Handled("UpdateConfig") => energy_rate' = energy_rate
        /\ Handled("UpdateEnergyRate") => config' = config ]_vars

\* a configuration change was handled while the panel showed a sampled rate
C1_Witness ==
    /\ last.msg = "UpdateConfig"
    /\ config = "config_b"
    /\ starts_with(energy_rate, Prefix)
    /\ returned.text = energy_rate

\* C3: no outcome of the external process (not started, exited non-zero,
\* exited zero with or without the label) ever aborts the process, neither
\* in init nor in a Tick.
C3_NeverAborts == pc # "aborted"

\* C5: once a Tick has been handled, energy_rate is exactly the text that the
\* latest get_energy_rate call that returned gave, which is that Tick's call
\* whenever it returned, whatever energy_rate was before.
C5_TickStoresSample ==
    last.msg = "UpdateEnergyRate" => energy_rate = returned.text

\* a Tick whose sample failed replaced a sampled rate by the failure text
C5_Witness ==
    /\ last.msg = "UpdateEnergyRate"
    /\ pc = "running"
    /\ ~success(output)
    /\ energy_rate = ErrorText

\* C6: handling UpdateConfig(snapshot) leaves config equal to the snapshot
\* the message carries, whatever config was before.
C6_ConfigReplaced ==
    [][Handled("UpdateConfig") => config' = Head(queue).config]_vars

\* a snapshot has been handled and is the configuration now
C6_Witness ==
    /\ last.msg = "UpdateConfig"
    /\ pc = "running"
    /\ config = "config_a"

\* C7: handling SubscriptionChannel changes none of energy_rate, config and
\* popup, and makes no get_energy_rate call.
C7_BootstrapNoOp ==
    [][Handled("SubscriptionChannel") =>
          /\ UNCHANGED <<energy_rate, config, popup>>
          /\ last'.calls = 0
          /\ UNCHANGED <<output, returned, stderr_log>>]_vars

\* the channel's message was handled when the state was not the default one
C7_Witness ==
    /\ last.msg = "SubscriptionChannel"
    /\ last.calls = 0
    /\ config # ConfigDefault
    /\ energy_rate # Empty

C10_TicksAlwaysNotify ==
    [][ /\ (Handled("UpdateEnergyRate") \/ Handled("UpdateConfig"))
            => (last'.views = 1 /\ rendered' = energy_rate')
        /\ (Handled("UpdateEnergyRate") /\ last.msg = "UpdateEnergyRate"
              /\ output' = output)
            => (energy_rate' = energy_rate /\ rendered' = rendered) ]_vars

\* C10 holds of every Tick whose get_energy_rate call returns: the only Tick
\* that draws nothing is the one whose call panics (C3).
C10_NotifiesWhenSampleReturns ==
    [][ /\ ((Handled("UpdateEnergyRate") /\ pc' = "running") \/ Handled("UpdateConfig"))
            => (last'.views = 1 /\ rendered' = energy_rate')
        /\ (Handled("UpdateEnergyRate") /\ last.msg = "UpdateEnergyRate"
              /\ output' = output)
            => (energy_rate' = energy_rate /\ rendered' = rendered) ]_vars

(***************************************************************************)
(* Properties of get_energy_rate alone (SamplerSpec).  The lines of the    *)
(* decoded output are described here by positions in the text, not by the  *)
(* operators that model str::lines and trim_start.                         *)
(***************************************************************************)
Decoded(bytes) == from_utf8_lossy(bytes)

LabelAt(s, p) ==
    /\ p + Len(Label) - 1 <= Len(s)
    /\ \A k \in 1..Len(Label) : s[p + k - 1] = Label[k]

\* the first position of the line that position p lies in
LineStart(s, p) ==
    LET nl == {j \in 1..(p - 1) : s[j] = "\n"}
    IN IF nl = {} THEN 1 ELSE (CHOOSE j \in nl : \A i \in nl : i <= j) + 1

\* the last position before the line break that ends the line of position p
LineEnd(s, p) ==
    LET nl == {j \in p..Len(s) : s[j] = "\n"}
    IN IF nl = {} THEN Len(s) ELSE (CHOOSE j \in nl : \A i \in nl : j <= i) - 1

\* the positions where a line, after its leading whitespace, starts with the label
LabelLines(s) ==
    {p \in 1..Len(s) :
        LabelAt(s, p) /\ \A k \in LineStart(s, p)..(p - 1) : is_whitespace(s[k])}

FirstLabelLine(s) == CHOOSE p \in LabelLines(s) : \A q \in LabelLines(s) : p <= q

\* what follows the label on the first such line, up to the end of that line
Remainder(s) ==
    SubSeq(s, FirstLabelLine(s) + Len(Label), LineEnd(s, FirstLabelLine(s)))

\* C2 (as claimed): on a non-zero exit the call returns the captured text of
\* the error stream, and the generic failure text only when that is empty.
C2_FailureReturnsStderr ==
    (pc = "sampled" /\ ~success(output)) =>
        returned.text = IF output.stderr = <<>> THEN ErrorText
                        ELSE Decoded(output.stderr)

\* C2 (amended): on a non-zero exit the call returns the fixed text "Error"
\* whatever the error stream holds, and writes "Error: ", the decoded error
\* stream and a line break to the applet's own standard error.
C2_FailureReturnsError ==
    (pc = "sampled" /\ ~success(output)) =>
        /\ returned.text = ErrorText
        /\ stderr_log = << ErrorPrefix \o Decoded(output.stderr) \o <<"\n">> >>

\* a call on a process that failed with a non-empty error stream
C2_Witness ==
    /\ pc = "sampled"
    /\ output.code = 1
    /\ output.stderr = <<"9", "\n">>
    /\ returned.text = ErrorText

\* C8 (as claimed): on exit 0 with a label line, the call returns
\* "Energy Rate: " and then what follows the label on the first such line,
\* trimmed of whitespace at both ends, with nothing else removed.
C8_ReturnsTrimmedRemainder ==
    (pc = "sampled" /\ success(output) /\ LabelLines(Decoded(output.stdout)) # {}) =>
        returned.text = Prefix \o trim(Remainder(Decoded(output.stdout)))

\* C8 holds of every first label line whose remainder does not hold the
\* label again; in general the call also removes every further occurrence
\* of the label from the line.
C8_ReturnsRemainderWithoutLabels ==
    (pc = "sampled" /\ success(output) /\ LabelLines(Decoded(output.stdout)) # {}) =>
        returned.text =
            Prefix \o trim(replace(Remainder(Decoded(output.stdout)), Label, <<>>))

\* C9: on exit 0 with no line that starts, after its leading whitespace,
\* with the label, the call returns the empty text; on a non-zero exit it
\* returns a text that is not empty.
C9_NoLabelGivesEmpty ==
    pc = "sampled" =>
        /\ (success(output) /\ LabelLines(Decoded(output.stdout)) = {})
              => returned.text = Empty
        /\ ~success(output) => returned.text # Empty

\* a successful output that holds the label, but not at the start of a line
C9_Witness ==
    /\ pc = "sampled"
    /\ success(output)
    /\ output.stdout = <<"9">> \o Label \o <<" ", "9">>
    /\ returned.text = Empty

C13_InitPrecedesEvents ==
    /\ [](pc = "start" =>
             /\ last.msg = "none"
             /\ queue = <<>> /\ chan = <<>>
             /\ bootEmitted = 0 /\ emittedConfig = None)
    /\ [](last.msg = "init" => last.calls = 1)
    /\ [](last.msg = "init" /\ pc = "running" =>
             /\ energy_rate = returned.text
             /\ config = IF last.load.context
                         THEN last.load.config
                         ELSE ConfigDefault)
    /\ [](last.msg = "init" /\ output.spawned => pc = "running")
    /\ [][HandleAny => pc = "running" /\ last.msg # "none"]_vars
    /\ <>(pc # "start")

\* the applet started on the default configuration after a failed load
C13_Witness ==
    /\ last.msg = "init"
    /\ pc = "running"
    /\ ~last.load.context
    /\ last.load.config # ConfigDefault
    /\ config = ConfigDefault
    /\ energy_rate # Empty

\* C14: while the get_energy_rate call of an UpdateEnergyRate message is in
\* flight no message is taken from the queue and config, energy_rate and the
\* panel stay as they are; the step that ends the call is the one that stores
\* its text, and the messages that arrived meanwhile are still waiting then.
C14_SampleBlocksUpdate ==
    [][pc = "updating" =>
          /\ Len(queue') >= Len(queue)
          /\ SubSeq(queue', 1, Len(queue)) = queue
          /\ config' = config
          /\ popup' = popup
          /\ \/ UNCHANGED <<pc, energy_rate, rendered, last>>
             \/ /\ pc' = "running"
                /\ queue' = queue
                /\ last'.msg = "UpdateEnergyRate"
                /\ energy_rate' = returned'.text
             \/ /\ pc' = "aborted"
                /\ queue' = queue
                /\ UNCHANGED <<energy_rate, rendered>>]_vars

\* a call is in flight while a new configuration and a tick are waiting
C14_Witness ==
    /\ pc = "updating"
    /\ Len(queue) = MaxQueue
    /\ queue[1].type = "UpdateConfig"
    /\ queue[1].config # config
    /\ queue[MaxQueue] = UpdateEnergyRate

\* C15: init and every UpdateEnergyRate message make one get_energy_rate call
\* each, whatever the call gives, and no other message makes any: after init
\* and n such messages there have been n + 1 calls.
C15_OneSamplePerTick ==
    /\ pc # "start" => samples = ticks + 1
    /\ last.msg \in {"init", "UpdateEnergyRate"} => last.calls = 1
    /\ last.msg \in {"SubscriptionChannel", "UpdateConfig", "PopupClosed"}
          => last.calls = 0

\* the latest of several ticks was a failed sample and it was taken once
C15_Witness ==
    /\ ticks = MaxTicks
    /\ samples = MaxTicks + 1
    /\ last.msg = "UpdateEnergyRate"
    /\ pc = "running"
    /\ ~success(output)
    /\ returned.text = ErrorText

\* what a successful output's first label line gives, by positions in the text
SuccessValue(out) ==
    LET s == Decoded(out.stdout)
    IN IF LabelLines(s) = {}
       THEN Empty
       ELSE Prefix \o trim(replace(Remainder(s), Label, <<>>))

\* C16: an UpdateEnergyRate message whose process exits unsuccessfully leaves
\* the fixed text "Error" in energy_rate and on the panel, however many such
\* messages came before; one whose process exits successfully leaves the text
\* of that output alone, whatever energy_rate held before.
C16_RecoversFromFailure ==
    [][(Handled("UpdateEnergyRate") /\ pc' = "running") =>
          /\ rendered' = energy_rate'
          /\ IF success(output')
             THEN /\ energy_rate' = SuccessValue(output')
                  /\ energy_rate' # ErrorText
                  /\ stderr_log' = <<>>
             ELSE energy_rate' = ErrorText ]_vars

\* a successful sample replaced the "Error" that the failed one before it left
C16_Witness ==
    /\ last.msg = "UpdateEnergyRate"
    /\ last.after_error
    /\ ticks = MaxTicks
    /\ pc = "running"
    /\ success(output)
    /\ starts_with(energy_rate, Prefix)
    /\ rendered = energy_rate

\* the whole line of the first position where a line starts with the label
FirstLabelLineText(s) ==
    SubSeq(s, LineStart(s, FirstLabelLine(s)), LineEnd(s, FirstLabelLine(s)))

\* C17: on exit 0 the call's text is made of the first line that starts, after
\* its leading whitespace, with the label, and of nothing else: it is the text
\* the call gives on that line alone, whatever lines come before it (without
\* the label, or with it further in or in capitals) or after it (with the label
\* or not).
C17_FirstLabelLineOnly ==
    (pc = "sampled" /\ success(output) /\ LabelLines(Decoded(output.stdout)) # {}) =>
        LET line == FirstLabelLineText(Decoded(output.stdout))
        IN /\ returned.text = Prefix \o trim(replace(line, Label, <<>>))
           /\ returned.text = get_energy_rate(Exited(0, line, <<>>)).text

\* two label lines with different values: the call returned the value of the
\* first of them
C17_Witness ==
    /\ pc = "sampled"
    /\ success(output)
    /\ \E p, q \in LabelLines(Decoded(output.stdout)) :
          /\ p < q
          /\ Decoded(output.stdout)[p + Len(Label)] = "9"
          /\ q + Len(Label) - 1 = Len(output.stdout)
    /\ returned.text = Prefix \o <<"9">>

\* the three shapes of the text of the panel
Shape(t) ==
    \/ t = Empty
    \/ t = ErrorText
    \/ (Len(t) >= Len(Prefix) /\ SubSeq(t, 1, Len(Prefix)) = Prefix)

\* C18: in every state energy_rate, the text last drawn and the text the last
\* get_energy_rate call returned are the empty text, "Error", or a text that
\* begins with "Energy Rate: ".
C18_ThreeShapes ==
    /\ Shape(energy_rate)
    /\ Shape(rendered)
    /\ Shape(returned.text)

\* the text went from "Error" to empty, after a text with a value at the start
C18_Witness ==
    /\ last.msg = "UpdateEnergyRate"
    /\ last.after_error
    /\ ticks = MaxTicks
    /\ pc = "running"
    /\ energy_rate = Empty
    /\ rendered = Empty
    /\ emittedConfig # None

\* the window of the model and one more, to tell "this id" from "any id"
PopupIds == Ids \cup {"window2"}

\* C19: a PopupClosed message leaves energy_rate and config as they are and
\* makes no get_energy_rate call; on any model, the arm sets popup to None if
\* popup is the id of the message and leaves it alone otherwise; and popup is
\* None in every state.
C19_PopupStaysNone ==
    /\ [](popup = None)
    /\ [][Handled("PopupClosed") =>
             /\ UNCHANGED <<energy_rate, config, popup>>
             /\ last'.calls = 0]_vars
    /\ [](\A p \in PopupIds \cup {None}, id \in PopupIds :
             LET self == [Self EXCEPT !.popup = p]
                 res == update(self, PopupClosed(id), output)
             IN /\ res.calls = <<>>
                /\ res.self.energy_rate = energy_rate
                /\ res.self.config = config
                /\ res.self.popup = IF p = id THEN None ELSE p)

\* a PopupClosed message was handled on a model that holds a value and a
\* configuration that is not the default one
C19_Witness ==
    /\ last.msg = "PopupClosed"
    /\ pc = "running"
    /\ popup = None
    /\ starts_with(energy_rate, Prefix)
    /\ config = "config_a"

====
